---- MODULE Spec2Model ----
(***************************************************************************)
(* FFmerge (src/ffmerge_gui.py): a Tkinter form that merges one audio and  *)
(* one video file by running ffmpeg once, and remembers the last output    *)
(* directory in a JSON file beside the program.                            *)
(*                                                                         *)
(* Strings are tuples of one-character strings, so that str.strip is       *)
(* computed and not assumed.  A path is such a tuple; the file system is   *)
(* the fixed sets Files and Dirs below.                                    *)
(***************************************************************************)
EXTENDS Naturals, Sequences, FiniteSets

\* ------------------------------------------------------------------ bounds
\* Most paths carried by one drop event.
MaxDrop == 2
\* Most entries of the PATH environment variable.
MaxPath == 3

\* ----------------------------------------------------------------- strings
Q == "\""
SP == " "
NL == "\n"

\* The characters str.strip('" ') removes (merge_now, open_outdir).
QuoteSpace == {Q, SP}
\* The characters str.strip() removes; the model's alphabet has these two.
Whitespace == {SP, NL}

RECURSIVE LStrip(_, _)
LStrip(s, cs) ==
  IF s = <<>> THEN <<>>
  ELSE IF Head(s) \in cs THEN LStrip(Tail(s), cs)
  ELSE s

RECURSIVE RStrip(_, _)
RStrip(s, cs) ==
  IF s = <<>> THEN <<>>
  ELSE IF s[Len(s)] \in cs THEN RStrip(SubSeq(s, 1, Len(s) - 1), cs)
  ELSE s

\* str.strip(chars): both ends, every leading and trailing character of cs.
Strip(s, cs) == RStrip(LStrip(s, cs), cs)

\* All tuples over S of length at most n.
SeqUpTo(S, n) == UNION {[1..k -> S] : k \in 0..n}

\* ------------------------------------------------------------- file system
\* Regular files: a.mp3 and v.mp4.  A directory: d.  x does not exist.
Files == {<<"a">>, <<"v">>}
Dirs == {<<"d">>}

isfile(p) == p \in Files
isdir(p) == p \in Dirs

\* os.path.splitext(path)[1].lower() of the model's paths.
splitext(p) ==
  IF p = <<"a">> THEN ".mp3"
  ELSE IF p = <<"v">> THEN ".mp4"
  ELSE ""

AUDIO_EXTS == {".aac", ".m4a", ".mp3", ".wav", ".flac", ".ogg", ".opus", ".wma", ".ac3"}
VIDEO_EXTS == {".mp4", ".mkv", ".mov", ".webm", ".m4v", ".avi", ".ts"}

is_audio(p) == splitext(p) \in AUDIO_EXTS
is_video(p) == splitext(p) \in VIDEO_EXTS

\* What the user can type into the entries (they are editable and bound to
\* the variables by textvariable=): nothing, a quoted file, a directory
\* followed by a space, a path that does not exist.
TypedFiles == {<<>>, <<Q, "a", Q>>}
TypedDirs == {<<>>, <<"d", SP>>, <<"x">>}
\* What a file dialog returns: an existing file, or '' when cancelled.
PickedFiles == Files \cup {<<>>}
\* What askdirectory(mustexist=True) returns: a directory, or '' when cancelled.
PickedDirs == Dirs \cup {<<>>}
\* The paths a drop event can carry, after parse_dnd_list.
DropPaths == {<<"a">>, <<"v">>, <<"d">>}
DropLists == SeqUpTo(DropPaths, MaxDrop)


\* ------------------------------------------------------- executable locator
\* The executable's name, the program's own directory, the path separator.
EXE == <<"f">>
HERE == <<"h">>
SEP == <<"/">>

\* os.path.join(dir, name): joining onto '' gives the name itself.
join(dir, name) == IF dir = <<>> THEN name ELSE dir \o SEP \o name

\* Entries PATH can list: a directory, the same directory quoted, another
\* directory, and the empty entry ('' also when PATH is unset: ''.split gives ['']).
PathEntries == {<<"p">>, <<Q, "p", Q>>, <<"r">>, <<>>}
\* Every place the executable may exist as a regular file.
ExePlaces == {join(<<"p">>, EXE), join(<<"r">>, EXE), EXE, join(HERE, EXE)}

RECURSIVE which_in_path(_, _, _)
which_in_path(path, i, exes) ==
  IF i > Len(path) THEN <<>>
  ELSE LET candidate == join(Strip(path[i], {Q}), EXE)
       IN IF candidate \in exes THEN <<candidate>>
          ELSE which_in_path(path, i + 1, exes)

\* which_in_path with the loop run from the last entry to the first.
RECURSIVE which_in_path_last(_, _, _)
which_in_path_last(path, i, exes) ==
  IF i < 1 THEN <<>>
  ELSE LET candidate == join(Strip(path[i], {Q}), EXE)
       IN IF candidate \in exes THEN <<candidate>>
          ELSE which_in_path_last(path, i - 1, exes)

which_ffmpeg_last(path, exes) ==
  LET found == which_in_path_last(path, Len(path), exes)
      local == join(HERE, EXE)
  IN IF found # <<>> THEN found[1]
     ELSE IF local \in exes THEN local
     ELSE EXE

which_ffmpeg(path, exes) ==
  LET found == which_in_path(path, 1, exes)
      local == join(HERE, EXE)
  IN IF found # <<>> THEN found[1]
     ELSE IF local \in exes THEN local
     ELSE EXE

\* ------------------------------------------------------------ settings store
\* A parsed JSON value: an object whose outdir key is absent, null or a
\* string, or a value that is not an object (an array, a number, ...).
JsonObj(k, s) == [t |-> "obj", k |-> k, s |-> s]
EmptyRecord == JsonObj("absent", <<>>)
NotAnObject == [t |-> "arr", k |-> "absent", s |-> <<>>]

\* The settings file: missing, present but unreadable, present but not valid
\* JSON, or holding a JSON value.
DiskFile(st, v) == [st |-> st, v |-> v]
Missing == DiskFile("missing", EmptyRecord)
Unreadable == DiskFile("unreadable", EmptyRecord)
Corrupt == DiskFile("corrupt", EmptyRecord)
Stored(v) == DiskFile("json", v)

\* What a previous session, or anything else, may have left on disk; the
\* directory x an earlier session recorded has since been removed.
InitialDisks ==
  {Missing, Unreadable, Corrupt, Stored(NotAnObject), Stored(EmptyRecord),
   Stored(JsonObj("null", <<>>)), Stored(JsonObj("str", <<"x">>))}

\* How a write of the settings file can end.
WriteOutcomes == {"ok", "openfail", "dumpfail"}

\* load_settings with only the parse error handled: a failing open raises.
load_settings_narrow(d) ==
  IF d.st = "missing" THEN [raised |-> FALSE, value |-> EmptyRecord]
  ELSE IF d.st = "unreadable" THEN [raised |-> TRUE, value |-> EmptyRecord]
  ELSE IF d.st = "corrupt" THEN [raised |-> FALSE, value |-> EmptyRecord]
  ELSE [raised |-> FALSE, value |-> d.v]

\* load_settings: the try block returns what json.load parsed, raises (open
\* or json.load fails) or falls through (no such file); except Exception
\* turns a raise into {}, and falling through returns {}.  The parsed value
\* is returned whatever its type.
load_settings(d) ==
  LET tried ==
        IF d.st = "missing" THEN "fell_through"
        ELSE IF d.st \in {"unreadable", "corrupt"} THEN "raised"
        ELSE "returned"
  IN [raised |-> FALSE,
      value |-> IF tried = "returned" THEN d.v ELSE EmptyRecord]

\* save_outdir(path) with the settings st in memory and the file d, the write
\* ending as wo: self.settings is replaced before the file is opened; open
\* failing leaves the file as it was, json.dump failing leaves it truncated;
\* except Exception swallows either.
save_outdir(st, d, path, wo) ==
  LET base == IF st.t = "obj" THEN st ELSE EmptyRecord
      new == [base EXCEPT !.k = "str", !.s = path]
  IN [settings |-> new,
      disk |-> IF wo = "ok" THEN Stored(new)
               ELSE IF wo = "dumpfail" THEN Corrupt
               ELSE d,
      raised |-> FALSE]

\* last_outdir of App.__init__: settings.get('outdir', '') or ''.
last_outdir(st) == IF st.t = "obj" /\ st.k = "str" THEN st.s ELSE <<>>


\* --------------------------------------------------------------------- state
VARIABLES
  audio_var,    \* the audio entry's text (self.audio_var)
  video_var,    \* the video entry's text (self.video_var)
  outdir_var,   \* the output-directory entry's text (self.outdir_var)
  settings,     \* the settings value in memory (self.settings)
  disk,         \* the settings file beside the program (self.config_path)
  merge_btn,    \* state of the merge button: "normal" or "disabled"
  status_var,   \* the status line (self.status_var)
  pc,           \* where the main thread is: "idle" in the main loop, "run"
                \* about to call subprocess.run, "wait" blocked in it, "msg"
                \* blocked in a modal message box of merge_now
  dialog,       \* the message box merge_now has open
  runs,         \* external processes started by the merge_now in progress
  proc,         \* merge_now's local proc, once subprocess.run has returned
  outfile,      \* the output file of the merge_now in progress
  uncaught,     \* an exception escaped a settings-store call
  path_env,     \* os.environ['PATH'], split at os.pathsep
  exe_files,    \* the places where the executable is a regular file
  ffmpeg        \* what which_ffmpeg last returned

vars == <<audio_var, video_var, outdir_var, settings, disk, merge_btn,
          status_var, pc, dialog, runs, proc, outfile, uncaught,
          path_env, exe_files, ffmpeg>>

gui == <<audio_var, video_var, outdir_var, merge_btn, status_var>>
store == <<settings, disk, uncaught>>
attempt == <<pc, dialog, runs, proc, outfile>>
environ == <<path_env, exe_files>>

NoDialog == [kind |-> "none", text |-> <<>>]
Box(kind) == [kind |-> kind, text |-> <<>>]
NoProc == [done |-> FALSE, returncode |-> 0, stdout |-> <<>>, stderr |-> <<>>]
NoFile == [exists |-> FALSE, size |-> 0]

\* The text shown when the process failed and wrote nothing.
UnknownError == <<"U">>

\* What the external process can write to a stream: nothing, a newline, a
\* line with its newline, a word.
Texts == {<<>>, <<NL>>, <<"b", NL>>, <<"o">>}
\* The output file after the process has exited: absent, empty, non-empty.
OutFiles == {NoFile, [exists |-> TRUE, size |-> 0], [exists |-> TRUE, size |-> 1]}
ReturnCodes == {0, 1}

\* App.__init__ with the settings file holding d: the settings in memory,
\* the output-directory entry's first text, and whether load_settings raised.
Constructed(d) ==
  LET loaded == load_settings(d)
  IN [settings |-> loaded.value,
      outdir |-> last_outdir(loaded.value),
      raised |-> loaded.raised]

\* The program has just been started.  In this specification PATH lists one
\* directory, which holds the executable; WhichSpec below varies both.
Init ==
  /\ disk \in InitialDisks
  /\ settings = Constructed(disk).settings
  /\ uncaught = Constructed(disk).raised
  /\ audio_var = <<>>
  /\ video_var = <<>>
  /\ outdir_var = Constructed(disk).outdir
  /\ merge_btn = "normal"
  /\ status_var = "ready"
  /\ pc = "idle"
  /\ dialog = NoDialog
  /\ runs = 0
  /\ proc = NoProc
  /\ outfile = NoFile
  /\ path_env = <<<<"p">>>>
  /\ exe_files = {join(<<"p">>, EXE)}
  /\ ffmpeg = <<>>

\* The main loop runs one callback at a time, and only between callbacks:
\* the main thread dispatches nothing while it is blocked in subprocess.run,
\* and a message box is modal, so the form takes no input while one is open.
Dispatching == pc = "idle"

\* ------------------------------------------------------------------ entries
edit_audio(s) ==
  /\ Dispatching
  /\ audio_var' = s
  /\ UNCHANGED <<video_var, outdir_var, merge_btn, status_var, store, attempt,
                 environ, ffmpeg>>

edit_video(s) ==
  /\ Dispatching
  /\ video_var' = s
  /\ UNCHANGED <<audio_var, outdir_var, merge_btn, status_var, store, attempt,
                 environ, ffmpeg>>

edit_outdir(s) ==
  /\ Dispatching
  /\ outdir_var' = s
  /\ UNCHANGED <<audio_var, video_var, merge_btn, status_var, store, attempt,
                 environ, ffmpeg>>

\* ------------------------------------------------------------------ pickers
pick_audio(path) ==
  /\ Dispatching
  /\ audio_var' = IF path # <<>> THEN path ELSE audio_var
  /\ UNCHANGED <<video_var, outdir_var, merge_btn, status_var, store, attempt,
                 environ, ffmpeg>>

pick_video(path) ==
  /\ Dispatching
  /\ video_var' = IF path # <<>> THEN path ELSE video_var
  /\ UNCHANGED <<audio_var, outdir_var, merge_btn, status_var, store, attempt,
                 environ, ffmpeg>>

\* The settings store after save_outdir(path) ending as wo.
Saved(path, wo) ==
  LET r == save_outdir(settings, disk, path, wo)
  IN /\ settings' = r.settings
     /\ disk' = r.disk
     /\ uncaught' = (uncaught \/ r.raised)

\* pick_outdir with the save left out.
pick_outdir_nosave(path, wo) ==
  /\ Dispatching
  /\ path # <<>>
  /\ outdir_var' = path
  /\ UNCHANGED <<audio_var, video_var, merge_btn, status_var, store, attempt,
                 environ, ffmpeg>>

pick_outdir(path, wo) ==
  /\ Dispatching
  /\ IF path # <<>>
       THEN /\ outdir_var' = path
            /\ Saved(path, wo)
       ELSE /\ wo = "ok"
            /\ UNCHANGED <<outdir_var, store>>
  /\ UNCHANGED <<audio_var, video_var, merge_btn, status_var, attempt,
                 environ, ffmpeg>>


\* -------------------------------------------------------------------- drops
\* The argument files is parse_dnd_list(event.data): the dropped paths.
on_drop_audio(files) ==
  /\ Dispatching
  /\ audio_var' = IF files # <<>> THEN files[1] ELSE audio_var
  /\ UNCHANGED <<video_var, outdir_var, merge_btn, status_var, store, attempt,
                 environ, ffmpeg>>

on_drop_video(files) ==
  /\ Dispatching
  /\ video_var' = IF files # <<>> THEN files[1] ELSE video_var
  /\ UNCHANGED <<audio_var, outdir_var, merge_btn, status_var, store, attempt,
                 environ, ffmpeg>>

\* The first directory among files, as <<f>>, or <<>>.
RECURSIVE first_dir(_, _)
first_dir(files, i) ==
  IF i > Len(files) THEN <<>>
  ELSE IF isdir(files[i]) THEN <<files[i]>>
  ELSE first_dir(files, i + 1)

on_drop_dir(files, wo) ==
  /\ Dispatching
  /\ LET f == first_dir(files, 1)
     IN IF f # <<>>
          THEN /\ outdir_var' = f[1]
               /\ Saved(f[1], wo)
          ELSE /\ wo = "ok"
               /\ UNCHANGED <<outdir_var, store>>
  /\ UNCHANGED <<audio_var, video_var, merge_btn, status_var, attempt,
                 environ, ffmpeg>>

\* The for loop of on_drop_any over files[i..]: acc holds the three entries'
\* texts and the paths handed to save_outdir so far.
RECURSIVE drop_any_loop(_, _, _)
drop_any_loop(files, i, acc) ==
  IF i > Len(files) THEN acc
  ELSE LET f == files[i]
       IN IF isdir(f)
            THEN IF acc.o = <<>>
                   THEN drop_any_loop(files, i + 1,
                          [acc EXCEPT !.o = f, !.saved = Append(@, f)])
                   ELSE drop_any_loop(files, i + 1, acc)
          ELSE IF is_audio(f) /\ acc.a = <<>>
            THEN drop_any_loop(files, i + 1, [acc EXCEPT !.a = f])
          ELSE IF is_video(f) /\ acc.v = <<>>
            THEN drop_any_loop(files, i + 1, [acc EXCEPT !.v = f])
          ELSE drop_any_loop(files, i + 1, acc)

on_drop_any(files, wo) ==
  /\ Dispatching
  /\ files # <<>>
  /\ LET acc == drop_any_loop(files, 1,
                  [a |-> audio_var, v |-> video_var, o |-> outdir_var,
                   saved |-> <<>>])
     IN /\ audio_var' = IF acc.a = <<>> THEN files[1] ELSE acc.a
        /\ video_var' = IF Len(files) > 1 /\ acc.v = <<>> THEN files[2] ELSE acc.v
        /\ outdir_var' = acc.o
        /\ IF acc.saved # <<>>
             THEN Saved(acc.saved[1], wo)
             ELSE /\ wo = "ok"
                  /\ UNCHANGED store
  /\ UNCHANGED <<merge_btn, status_var, attempt, environ, ffmpeg>>


\* -------------------------------------------------------------------- merge
\* validate with the video checked before the audio.
validate_video_first(audio, video, outdir) ==
  IF video = <<>> \/ ~isfile(video) THEN "video_invalid"
  ELSE IF audio = <<>> \/ ~isfile(audio) THEN "audio_invalid"
  ELSE IF outdir = <<>> THEN "outdir_empty"
  ELSE IF ~isdir(outdir) THEN "outdir_missing"
  ELSE "ok"

\* The four checks of merge_now on the stripped texts, in the code's order:
\* the message box of the first that fails, or "ok".
validate(audio, video, outdir) ==
  IF audio = <<>> \/ ~isfile(audio) THEN "audio_invalid"
  ELSE IF video = <<>> \/ ~isfile(video) THEN "video_invalid"
  ELSE IF outdir = <<>> THEN "outdir_empty"
  ELSE IF ~isdir(outdir) THEN "outdir_missing"
  ELSE "ok"

\* The button left as it was.
btn_left_normal == "normal"

\* The state the button is put in before subprocess.run.
btn_during_run == "disabled"

\* merge_now up to the call of subprocess.run: the entries are read and
\* stripped, checked, and either a message box opens or the executable is
\* located and the button disabled.
merge_now ==
  /\ Dispatching
  /\ merge_btn = "normal"
  /\ runs' = 0
  /\ LET audio == Strip(audio_var, QuoteSpace)
         video == Strip(video_var, QuoteSpace)
         outdir == Strip(outdir_var, QuoteSpace)
         v == validate(audio, video, outdir)
     IN IF v # "ok"
          THEN /\ dialog' = Box(v)
               /\ pc' = "msg"
               /\ UNCHANGED <<merge_btn, status_var, ffmpeg>>
          ELSE /\ ffmpeg' = which_ffmpeg(path_env, exe_files)
               /\ merge_btn' = btn_during_run
               /\ status_var' = "merging"
               /\ pc' = "run"
               /\ UNCHANGED dialog
  /\ UNCHANGED <<audio_var, video_var, outdir_var, store, proc, outfile, environ>>

\* How starting the process can end: it runs, or subprocess.run raises
\* FileNotFoundError, or another exception (PermissionError, OSError).
StartOutcomes == {"started", "FileNotFoundError", "OSError"}

subprocess_run_start(o) ==
  /\ pc = "run"
  /\ IF o = "started"
       THEN /\ runs' = runs + 1
            /\ pc' = "wait"
            /\ UNCHANGED dialog
       ELSE /\ dialog' = Box(IF o = "FileNotFoundError" THEN "not_found" ELSE "error")
            /\ pc' = "msg"
            /\ UNCHANGED runs
  /\ UNCHANGED <<gui, store, proc, outfile, environ, ffmpeg>>

\* How the call can end once the process has exited: subprocess.run returns
\* (exit status, captured text), or decoding the captured text raises; either
\* way the process has left the output file absent, empty or non-empty.
RunReturns ==
  [exc : {FALSE}, returncode : ReturnCodes, stdout : Texts, stderr : Texts,
   file : OutFiles]
  \cup [exc : {TRUE}, returncode : {0}, stdout : {<<>>}, stderr : {<<>>},
        file : OutFiles]

\* merge_failed without the size test.
merge_failed_no_size(p, f) == p.returncode # 0 \/ ~f.exists

\* The test of line 268 (getsize is reached only when the file exists).
merge_failed(p, f) == p.returncode # 0 \/ ~f.exists \/ f.size = 0

\* reason with the standard output preferred.
reason_stdout_first(p) ==
  LET err == Strip(p.stderr, Whitespace)
      out == Strip(p.stdout, Whitespace)
  IN IF out # <<>> THEN out
     ELSE IF err # <<>> THEN err
     ELSE UnknownError

\* The text of the failure box, line 269.
reason(p) ==
  LET err == Strip(p.stderr, Whitespace)
      out == Strip(p.stdout, Whitespace)
  IN IF err # <<>> THEN err
     ELSE IF out # <<>> THEN out
     ELSE UnknownError

\* subprocess.run has ended as o: the result is classified and a box opens.
run_classified(o) ==
  /\ outfile' = o.file
  /\ pc' = "msg"
  /\ IF o.exc
       THEN /\ dialog' = Box("error")
            /\ UNCHANGED <<proc, merge_btn, status_var>>
       ELSE LET p == [done |-> TRUE, returncode |-> o.returncode,
                      stdout |-> o.stdout, stderr |-> o.stderr]
            IN /\ proc' = p
               /\ IF merge_failed(p, o.file)
                    THEN /\ dialog' = [kind |-> "merge_failed", text |-> reason(p)]
                         /\ UNCHANGED <<merge_btn, status_var>>
                    ELSE /\ merge_btn' = "normal"
                         /\ status_var' = "success"
                         /\ dialog' = Box("done")
  /\ UNCHANGED <<audio_var, video_var, outdir_var, store, runs, environ, ffmpeg>>

\* subprocess_run_return with one more try after a non-zero exit status.
subprocess_run_return_retry(o) ==
  /\ pc = "wait"
  /\ IF ~o.exc /\ o.returncode # 0 /\ runs < 2
       THEN /\ pc' = "run"
            /\ UNCHANGED <<gui, store, dialog, runs, proc, outfile, environ, ffmpeg>>
       ELSE run_classified(o)

subprocess_run_return(o) ==
  /\ pc = "wait"
  /\ run_classified(o)

\* The status line set after a failure box is closed.
status_after(kind) ==
  IF kind = "merge_failed" THEN "failed"
  ELSE IF kind = "not_found" THEN "not_found"
  ELSE "error"

\* finally_pending with the button restored on the failure path alone.
finally_pending_failed_only(kind) == kind = "merge_failed"

\* The boxes opened inside the try statement on a path that returns: closing
\* one runs the finally clause.
finally_pending(kind) == kind \in {"merge_failed", "not_found", "error"}

\* clears_inputs with the selections cleared after every box.
clears_inputs_always(kind) == TRUE

\* The box after which lines 288-289 clear the two selections.
clears_inputs(kind) == kind = "done"

\* The message box is closed and merge_now runs to its return.
messagebox_closed ==
  /\ pc = "msg"
  /\ status_var' = IF dialog.kind \in {"merge_failed", "not_found", "error"}
                     THEN status_after(dialog.kind)
                     ELSE status_var
  /\ merge_btn' = IF finally_pending(dialog.kind) THEN "normal" ELSE merge_btn
  /\ audio_var' = IF clears_inputs(dialog.kind) THEN <<>> ELSE audio_var
  /\ video_var' = IF clears_inputs(dialog.kind) THEN <<>> ELSE video_var
  /\ pc' = "idle"
  /\ dialog' = NoDialog
  /\ runs' = 0
  /\ proc' = NoProc
  /\ outfile' = NoFile
  /\ ffmpeg' = <<>>
  /\ UNCHANGED <<outdir_var, store, environ>>

\* The program is closed and started again: main() builds a new App.
restart ==
  /\ Dispatching
  /\ settings' = Constructed(disk).settings
  /\ uncaught' = (uncaught \/ Constructed(disk).raised)
  /\ audio_var' = <<>>
  /\ video_var' = <<>>
  /\ outdir_var' = Constructed(disk).outdir
  /\ merge_btn' = "normal"
  /\ status_var' = "ready"
  /\ UNCHANGED <<disk, attempt, environ, ffmpeg>>

\* ------------------------------------------------------------ specification
EditAudio == \E s \in TypedFiles : edit_audio(s)
EditVideo == \E s \in TypedFiles : edit_video(s)
EditOutdir == \E s \in TypedDirs : edit_outdir(s)
PickAudio == \E path \in PickedFiles : pick_audio(path)
PickVideo == \E path \in PickedFiles : pick_video(path)
PickOutdir == \E path \in PickedDirs, wo \in WriteOutcomes : pick_outdir(path, wo)
DropAudio == \E files \in DropLists : on_drop_audio(files)
DropVideo == \E files \in DropLists : on_drop_video(files)
DropDir == \E files \in DropLists, wo \in WriteOutcomes : on_drop_dir(files, wo)
DropAny == \E files \in DropLists, wo \in WriteOutcomes : on_drop_any(files, wo)
RunStart == \E o \in StartOutcomes : subprocess_run_start(o)
RunReturn == \E o \in RunReturns : subprocess_run_return(o)

Next ==
  \/ EditAudio
  \/ EditVideo
  \/ EditOutdir
  \/ PickAudio
  \/ PickVideo
  \/ PickOutdir
  \/ DropAudio
  \/ DropVideo
  \/ DropDir
  \/ DropAny
  \/ merge_now
  \/ RunStart
  \/ RunReturn
  \/ messagebox_closed
  \/ restart

Spec == Init /\ [][Next]_vars


\* The executable locator alone, over every PATH and every placement of the
\* executable within the bounds.
InitWhich ==
  /\ path_env \in SeqUpTo(PathEntries, MaxPath) \ {<<>>}
  /\ exe_files \in SUBSET ExePlaces
  /\ ffmpeg = <<>>
  /\ disk = Missing
  /\ settings = Constructed(disk).settings
  /\ uncaught = Constructed(disk).raised
  /\ audio_var = <<>>
  /\ video_var = <<>>
  /\ outdir_var = Constructed(disk).outdir
  /\ merge_btn = "normal"
  /\ status_var = "ready"
  /\ pc = "idle"
  /\ dialog = NoDialog
  /\ runs = 0
  /\ proc = NoProc
  /\ outfile = NoFile

locate ==
  /\ ffmpeg = <<>>
  /\ ffmpeg' = which_ffmpeg(path_env, exe_files)
  /\ UNCHANGED <<gui, store, attempt, environ>>

NextWhich == locate

WhichSpec == InitWhich /\ [][NextWhich]_vars


\* ------------------------------------------------------------------- claims
\* The three texts as merge_now reads them; no handler runs while merge_now
\* is in progress, so they are the attempt's inputs for as long as pc # "idle".
AudioOk == LET a == Strip(audio_var, QuoteSpace) IN a # <<>> /\ a \in Files
VideoOk == LET v == Strip(video_var, QuoteSpace) IN v # <<>> /\ v \in Files
OutdirGiven == Strip(outdir_var, QuoteSpace) # <<>>
OutdirOk == Strip(outdir_var, QuoteSpace) \in Dirs

ValidationBoxes == {"audio_invalid", "video_invalid", "outdir_empty", "outdir_missing"}

\* C1: merge_now checks audio, video, output directory given, output
\* directory existing, in that order; the first check that fails alone decides
\* the error shown, and whenever one of the four fails no external process is
\* started (the executable is not even looked for).
C1_ValidationOrder ==
  pc # "idle" =>
    /\ ~AudioOk => dialog.kind = "audio_invalid"
    /\ AudioOk /\ ~VideoOk => dialog.kind = "video_invalid"
    /\ AudioOk /\ VideoOk /\ ~OutdirGiven => dialog.kind = "outdir_empty"
    /\ AudioOk /\ VideoOk /\ OutdirGiven /\ ~OutdirOk => dialog.kind = "outdir_missing"
    /\ AudioOk /\ VideoOk /\ OutdirGiven /\ OutdirOk => dialog.kind \notin ValidationBoxes
    /\ ~(AudioOk /\ VideoOk /\ OutdirGiven /\ OutdirOk) =>
         pc = "msg" /\ runs = 0 /\ ffmpeg = <<>> /\ merge_btn = "normal"

\* The video check is the first to fail and the output directory is bad too.
C1_Witness ==
  /\ pc = "msg"
  /\ dialog.kind = "video_invalid"
  /\ AudioOk
  /\ ~OutdirGiven
  /\ runs = 0

C3_ClearsOnlyOnSuccess ==
  [][(pc # "idle" \/ pc' # "idle") =>
       /\ outdir_var' = outdir_var
       /\ IF pc = "msg" /\ dialog.kind = "done"
            THEN audio_var' = <<>> /\ video_var' = <<>>
            ELSE audio_var' = audio_var /\ video_var' = video_var]_vars

\* A merge has succeeded: the selections are empty, the directory is kept.
C3_Witness ==
  /\ pc = "idle"
  /\ status_var = "success"
  /\ audio_var = <<>>
  /\ video_var = <<>>
  /\ OutdirOk

\* The outcome an open box stands for.
Outcome(kind) ==
  IF kind \in ValidationBoxes THEN "ValidationError"
  ELSE IF kind = "not_found" THEN "NotFound"
  ELSE IF kind = "merge_failed" THEN "ProcessError"
  ELSE IF kind = "done" THEN "Success"
  ELSE "Error"

\* C4 as claimed: at most one process per attempt, and every attempt ends as
\* Success or ProcessError after exactly one classified run, or as
\* ValidationError or NotFound without any process.
C4_FourOutcomes ==
  /\ runs <= 1
  /\ pc = "msg" =>
       \/ /\ Outcome(dialog.kind) \in {"Success", "ProcessError"}
          /\ runs = 1
          /\ proc.done
       \/ /\ Outcome(dialog.kind) \in {"ValidationError", "NotFound"}
          /\ runs = 0
          /\ ~proc.done

\* C4 (amended): at most one process per attempt, no retry; an attempt ends
\* as Success or ProcessError after exactly one classified run, as
\* ValidationError or NotFound without any process, or as a generic error
\* (an exception other than FileNotFoundError), with or without a process
\* having run but never with a classified run.
C4_FiveOutcomes ==
  /\ runs <= 1
  /\ pc = "msg" =>
       \/ /\ Outcome(dialog.kind) \in {"Success", "ProcessError"}
          /\ runs = 1
          /\ proc.done
       \/ /\ Outcome(dialog.kind) \in {"ValidationError", "NotFound"}
          /\ runs = 0
          /\ ~proc.done
       \/ /\ Outcome(dialog.kind) = "Error"
          /\ ~proc.done

\* The process ran and the attempt still ended in the generic error box.
C4_Witness ==
  /\ pc = "msg"
  /\ dialog.kind = "error"
  /\ runs = 1

\* C5: while the process is about to start or running the button is
\* disabled, exactly one process belongs to the attempt once it runs, and
\* merge_now cannot begin.
C5_OneInFlight ==
  /\ pc \in {"run", "wait"} => merge_btn = "disabled" /\ ~ENABLED merge_now
  /\ pc = "run" => runs = 0
  /\ pc = "wait" => runs = 1

\* The process is running.
C5_Witness ==
  /\ pc = "wait"
  /\ runs = 1
  /\ merge_btn = "disabled"

\* The outdir the settings file holds, as <<path>>, or <<>> when it holds none.
Persisted(d) ==
  IF d.st = "json" /\ d.v.t = "obj" /\ d.v.k = "str" THEN <<d.v.s>> ELSE <<>>

\* C6 as claimed: every operation that changes the output-directory text
\* (picker, drop on the entry, drop on the window, typing) and whose write, if
\* any, succeeds leaves the file's outdir equal to the text.
C6_WrittenOnEveryChange ==
  [][(/\ outdir_var' # outdir_var
      /\ \/ \E path \in PickedDirs : pick_outdir(path, "ok")
         \/ \E files \in DropLists : on_drop_dir(files, "ok")
         \/ \E files \in DropLists : on_drop_any(files, "ok")
         \/ \E t \in TypedDirs : edit_outdir(t))
     => Persisted(disk') = <<outdir_var'>>]_vars

\* C6 (amended): every change of the output-directory text made by the
\* picker, a drop on the entry or a drop on the window, whose write succeeds,
\* leaves the file's outdir equal to the text; typing into the entry changes
\* the text and writes nothing.
C6_WrittenOnPickOrDrop ==
  [][/\ (/\ outdir_var' # outdir_var
         /\ \/ \E path \in PickedDirs : pick_outdir(path, "ok")
            \/ \E files \in DropLists : on_drop_dir(files, "ok")
            \/ \E files \in DropLists : on_drop_any(files, "ok"))
        => Persisted(disk') = <<outdir_var'>>
     /\ (\E t \in TypedDirs : edit_outdir(t)) => disk' = disk /\ settings' = settings]_vars

\* The directory d, never on disk at startup, was chosen and written.
C6_Witness ==
  /\ outdir_var = <<"d">>
  /\ Persisted(disk) = <<outdir_var>>
  /\ settings = JsonObj("str", <<"d">>)

\* C7 as claimed: at every start of the program, the first included, the
\* settings are the empty record whenever the file is missing, unreadable or
\* does not hold a JSON object, and no settings-store call ever raises.
C7_EmptyUnlessObject ==
  /\ ~uncaught
  /\ ~(disk.st = "json" /\ disk.v.t = "obj") => settings = EmptyRecord
  /\ [][/\ ~uncaught'
        /\ restart /\ ~(disk.st = "json" /\ disk.v.t = "obj") =>
             settings' = EmptyRecord]_vars

\* C7 (amended): at every start of the program, the first included,
\* load_settings returns the empty record, without raising,
\* whenever the file is missing, unreadable or not valid JSON, and returns a
\* parsed value that is not an object as it is, which __init__ reads as no
\* outdir; save_outdir never raises however the write ends, and the text of
\* the output-directory entry is set all the same.
C7_FailSoft ==
  /\ ~uncaught
  /\ disk.st # "json" => settings = EmptyRecord /\ outdir_var = <<>>
  /\ disk = Stored(NotAnObject) => settings = NotAnObject /\ outdir_var = <<>>
  /\ [][/\ ~uncaught'
        /\ restart /\ disk.st # "json" =>
             settings' = EmptyRecord /\ outdir_var' = <<>>
        /\ restart /\ disk = Stored(NotAnObject) =>
             settings' = NotAnObject /\ outdir_var' = <<>>
        /\ \A path \in Dirs, wo \in WriteOutcomes :
             pick_outdir(path, wo) =>
               /\ outdir_var' = path
               /\ settings' = JsonObj("str", path)
               /\ wo = "openfail" => disk' = disk]_vars

\* A write failed half way: the file is broken, the entry and the settings in
\* memory hold the new directory, nothing was raised.
C7_Witness ==
  /\ disk = Corrupt
  /\ settings = JsonObj("str", <<"d">>)
  /\ outdir_var = <<"d">>
  /\ ~uncaught

\* The candidate of PATH's i-th entry, and the entries whose candidate is a
\* regular file.
Candidate(i) == join(Strip(path_env[i], {Q}), EXE)
Hits == {i \in 1..Len(path_env) : Candidate(i) \in exe_files}

\* C8: which_ffmpeg returns the candidate of the first PATH entry in which
\* the executable is a regular file; if there is none, the candidate in the
\* program's own directory when that is a regular file; otherwise the bare
\* name.
C8_FirstMatch ==
  ffmpeg # <<>> =>
    /\ Hits # {} => \E i \in Hits : (\A j \in Hits : i <= j) /\ ffmpeg = Candidate(i)
    /\ Hits = {} /\ join(HERE, EXE) \in exe_files => ffmpeg = join(HERE, EXE)
    /\ Hits = {} /\ join(HERE, EXE) \notin exe_files => ffmpeg = EXE

\* The first entry misses, a later one hits, and the program's own directory
\* holds the executable too.
C8_Witness ==
  /\ Len(path_env) >= 2
  /\ 1 \notin Hits
  /\ Hits # {}
  /\ join(HERE, EXE) \in exe_files
  /\ ffmpeg = join(<<"r">>, EXE)

\* t is s without its leading and trailing whitespace.
IsStripped(t, s) ==
  \E i \in 1..(Len(s) + 1) : \E j \in 0..Len(s) :
    /\ t = SubSeq(s, i, j)
    /\ \A k \in 1..Len(s) : (k < i \/ k > j) => s[k] \in Whitespace
    /\ t # <<>> => t[1] \notin Whitespace /\ t[Len(t)] \notin Whitespace

Blank(s) == \A k \in 1..Len(s) : s[k] \in Whitespace

\* C9 as claimed: the reason of a process failure is the captured standard
\* error, verbatim, if it is non-empty, else the captured standard output if
\* it is non-empty, else the unknown-error text.
C9_ReasonVerbatim ==
  dialog.kind = "merge_failed" =>
    dialog.text = IF proc.stderr # <<>> THEN proc.stderr
                  ELSE IF proc.stdout # <<>> THEN proc.stdout
                  ELSE UnknownError

\* C9 (amended): the reason of a process failure is the captured standard
\* error without its leading and trailing whitespace if that leaves anything,
\* else the captured standard output likewise stripped if that leaves
\* anything, else the unknown-error text.
C9_ReasonStripped ==
  dialog.kind = "merge_failed" =>
    \/ /\ ~Blank(proc.stderr)
       /\ IsStripped(dialog.text, proc.stderr)
    \/ /\ Blank(proc.stderr)
       /\ ~Blank(proc.stdout)
       /\ IsStripped(dialog.text, proc.stdout)
    \/ /\ Blank(proc.stderr)
       /\ Blank(proc.stdout)
       /\ dialog.text = UnknownError

\* The process wrote a line to its standard error and something else to its
\* standard output: the reason is the line without its newline.
C9_Witness ==
  /\ dialog.kind = "merge_failed"
  /\ proc.stderr = <<"b", NL>>
  /\ proc.stdout = <<"o">>
  /\ dialog.text = <<"b">>

\* C10: whenever merge_now is not in progress the button is enabled: every
\* attempt that disabled it has enabled it again by the time it returns.
C10_ButtonRestored ==
  /\ pc = "idle" => merge_btn = "normal"
  /\ pc = "msg" /\ dialog.kind = "done" => merge_btn = "normal"

\* An attempt that disabled the button ended in the generic error box and
\* has returned.
C10_Witness ==
  /\ pc = "idle"
  /\ status_var = "error"
  /\ merge_btn = "normal"

====
